---- MODULE Spec2Model ----
(***************************************************************************)
(* Model of gatsby-plugin-sharp's responsive image planning (fluid, fixed, *)
(* batchQueueImageResizing, createJob) and of the gatsby-recipes directory *)
(* resource provider.                                                      *)
(*                                                                         *)
(* Pixel sizes are carried in quarter pixels (size * Scale) so that the    *)
(* fractional candidates option/4, option/2 and option*1.5 stay integers;  *)
(* Round is JavaScript's Math.round on such a value.  An optional value is *)
(* the empty sequence (undefined) or a one-element sequence.               *)
(*                                                                         *)
(* A call of fluid, fixed or batchQueueImageResizing is one step that      *)
(* leaves its result in last; Return hands the result to the caller.  The  *)
(* base64 and traced SVG placeholders (lines 550-574 and 686-715) are      *)
(* delegated to sharp and are switched off in the calls modelled here;    *)
(* base64 and traceSVG are modelled as calls of their own, with the cache  *)
(* (cachifiedProcess) or the memoized function in front of the renderer.   *)
(***************************************************************************)
EXTENDS Integers, Sequences, FiniteSets, TLC

VARIABLES boundActionCreators, imageSizeCache, promises, panics,
          existing, last, fs, dirLast, firstResult,
          cacheStore, memoStore, processRuns, cacheLast

vars == <<boundActionCreators, imageSizeCache, promises, panics,
          existing, last, fs, dirLast, firstResult,
          cacheStore, memoStore, processRuns, cacheLast>>

sharpVars == <<boundActionCreators, imageSizeCache, promises, panics,
               existing, last>>

dirVars == <<fs, dirLast, firstResult>>

cacheVars == <<cacheStore, memoStore, processRuns, cacheLast>>

\* ---------------------------------------------------------------- bounds
MaxOpt == 4
MaxBreakpoint == 2
MaxJobs == 1
MaxTransforms == 2
MaxCalls == 2

\* ------------------------------------------------------------- constants
Scale == 4

\* --------------------------------------------------------------- helpers
None == <<>>

Some(v) == <<v>>

IsDef(x) == x # <<>>

Range(s) == {s[i] : i \in 1..Len(s)}

Min(a, b) == IF a <= b THEN a ELSE b

\* Math.round of the rational num/den (den # 0): floor(num/den + 1/2)
RoundDiv(num, den) ==
  IF den > 0 THEN (2 * num + den) \div (2 * den)
  ELSE (den - 2 * num) \div (-(2 * den))

\* Math.round of a size held in quarter pixels
Round(q) == RoundDiv(q, Scale)

RECURSIVE Insert(_, _)
Insert(x, s) ==
  IF s = <<>> THEN <<x>>
  ELSE IF x < s[1] THEN <<x>> \o s
  ELSE <<s[1]>> \o Insert(x, Tail(s))

\* _.sortBy(list): stable ascending sort
RECURSIVE SortBy(_)
SortBy(s) ==
  IF s = <<>> THEN <<>>
  ELSE Insert(s[Len(s)], SortBy(SubSeq(s, 1, Len(s) - 1)))

\* Array.prototype.findIndex, 1-based; 0 stands for JavaScript's -1
FindIndex(s, x) ==
  IF \E i \in 1..Len(s) : s[i] = x
  THEN CHOOSE i \in 1..Len(s) : s[i] = x /\ \A j \in 1..(i - 1) : s[j] # x
  ELSE 0

\* ------------------------------------------------------------ input sets
OptVals == {None} \cup {Some(v) : v \in 0..MaxOpt}

\* srcSetBreakpoints: none (the default breakpoints), one or two
BreakpointLists ==
  {<<>>} \cup {<<a>> : a \in 0..MaxBreakpoint}
         \cup {<<a, b>> : a \in 0..MaxBreakpoint, b \in 0..MaxBreakpoint}

\* Source images: kind "ok" is a readable image; "corrupt" is a file whose
\* metadata cannot be decoded and whose probed dimensions are undefined;
\* "missing" is a file that cannot be read at all.
SourceFiles ==
  { [digest |-> "d1", kind |-> "ok", width |-> 3, height |-> 1],
    [digest |-> "d2", kind |-> "ok", width |-> 1, height |-> 5],
    [digest |-> "d3", kind |-> "corrupt", width |-> 0, height |-> 0],
    [digest |-> "d4", kind |-> "missing", width |-> 0, height |-> 0] }

NoFile == [digest |-> "", kind |-> "none", width |-> 0, height |-> 0]

NoArgs == [width |-> None, height |-> None, maxWidth |-> None,
           maxHeight |-> None, srcSetBreakpoints |-> <<>>, fit |-> "cover",
           sizes |-> None]

FluidArgs ==
  { a \in [width : {None}, height : {None}, maxWidth : OptVals,
           maxHeight : OptVals, srcSetBreakpoints : BreakpointLists,
           fit : {"cover", "inside"}, sizes : {None}] :
      /\ (IsDef(a.maxWidth) \/ IsDef(a.maxHeight))
      /\ (a.fit = "inside" => (IsDef(a.maxWidth) /\ IsDef(a.maxHeight))) }

\* options.sizes: not given, the empty string, or a sizes string
SizesVals == {None, Some(""), Some("50vw")}

\* fluid arguments that may carry a sizes string
FluidSizesArgs ==
  { a \in [width : {None}, height : {None}, maxWidth : OptVals,
           maxHeight : OptVals, srcSetBreakpoints : BreakpointLists,
           fit : {"cover", "inside"}, sizes : SizesVals] :
      /\ (IsDef(a.maxWidth) \/ IsDef(a.maxHeight))
      /\ (a.fit = "inside" => (IsDef(a.maxWidth) /\ IsDef(a.maxHeight))) }

FixedArgs ==
  { a \in [width : OptVals, height : OptVals, maxWidth : {None},
           maxHeight : {None}, srcSetBreakpoints : {<<>>},
           fit : {"cover"}, sizes : {None}] :
      IsDef(a.width) \/ IsDef(a.height) }

OkFiles == {f \in SourceFiles : f.kind = "ok"}

\* transforms handed directly to batchQueueImageResizing
BatchTransforms ==
  UNION {[1..n -> {[width |-> Some(w), height |-> None] : w \in 1..2}] :
           n \in 0..MaxTransforms}

\* process.env.NODE_ENV, read at every probe of the image size
NodeEnvs == {"production", "test"}

\* errors a dispatcher promise can reject with
Errors == {"e1", "e2"}

\* ----------------------------------------------------------- healOptions
\* The options healer rejects a required sizing dimension (width, height)
\* that is present but <= 0; maxWidth and maxHeight are left to fluid(),
\* which checks the one it uses itself.
\* a healer that validates nothing
healOptionsAcceptsAll(args) == FALSE

healOptionsFails(args) ==
  \E d \in {args.width, args.height} : IsDef(d) /\ d[1] <= 0

\* ----------------------------------------------------------------- fluid
fluidFixedDimension(options) ==
  IF options.maxWidth = None THEN "maxHeight" ELSE "maxWidth"

fluidOption(options) ==
  IF fluidFixedDimension(options) = "maxWidth"
  THEN options.maxWidth[1] ELSE options.maxHeight[1]

fluidIntrinsic(options, metadata) ==
  IF fluidFixedDimension(options) = "maxWidth"
  THEN metadata.width ELSE metadata.height

\* const maxWidth = options.maxWidth ? Math.min(options.maxWidth, width) : undefined
cappedMaxWidth(options, metadata) ==
  IF IsDef(options.maxWidth) /\ options.maxWidth[1] # 0
  THEN Some(Min(options.maxWidth[1], metadata.width)) ELSE None

cappedMaxHeight(options, metadata) ==
  IF IsDef(options.maxHeight) /\ options.maxHeight[1] # 0
  THEN Some(Min(options.maxHeight[1], metadata.height)) ELSE None

usesDefaultBreakpoints(options) == Len(options.srcSetBreakpoints) = 0

RECURSIVE pushBreakpoints(_, _)
pushBreakpoints(sizes, bps) ==
  IF bps = <<>> THEN sizes
  ELSE IF (Scale * bps[1]) \in Range(sizes)
       THEN pushBreakpoints(sizes, Tail(bps))
       ELSE pushBreakpoints(Append(sizes, Scale * bps[1]), Tail(bps))

\* a breakpoint check that lets 0 through (breakpoint < 0)
invalidBreakpointBelowZero(options) ==
  /\ ~usesDefaultBreakpoints(options)
  /\ \E i \in 1..Len(options.srcSetBreakpoints) :
        options.srcSetBreakpoints[i] < 0

invalidBreakpoint(options) ==
  /\ ~usesDefaultBreakpoints(options)
  /\ \E i \in 1..Len(options.srcSetBreakpoints) :
        options.srcSetBreakpoints[i] < 1

\* fluidSizes in quarter pixels
fluidSizes(options) ==
  LET o == fluidOption(options) IN
  IF usesDefaultBreakpoints(options)
  THEN <<Scale * o, o, 2 * o, 6 * o, 8 * o>>
  ELSE pushBreakpoints(<<Scale * o>>, options.srcSetBreakpoints)

\* the candidates without the filter against the intrinsic size
fluidUnfilteredSizes(options, metadata) ==
  SortBy(Append(fluidSizes(options),
                Scale * fluidIntrinsic(options, metadata)))

\* fluidSizes.filter(size => size < intrinsic), push(intrinsic), _.sortBy
fluidFilteredSizes(options, metadata) ==
  LET intrinsic == Scale * fluidIntrinsic(options, metadata) IN
  SortBy(Append(SelectSeq(fluidSizes(options), LAMBDA s : s < intrinsic),
                intrinsic))

\* a lookup of the requested option itself rather than of the capped one
requestedOptionIndex(options, metadata) ==
  FindIndex(fluidFilteredSizes(options, metadata),
            Scale * fluidOption(options))

imageWithDensityOneIndex(options, metadata) ==
  LET capped == IF fluidFixedDimension(options) = "maxWidth"
                THEN cappedMaxWidth(options, metadata)
                ELSE cappedMaxHeight(options, metadata) IN
  IF capped = None THEN 0
  ELSE FindIndex(fluidFilteredSizes(options, metadata), Scale * capped[1])

\* one transform (arrrgs) of fluid(): the width and height it requests
fluidTransform(options, metadata, size) ==
  LET fd == fluidFixedDimension(options)
      base == IF fd = "maxWidth"
              THEN [width |-> Some(Round(size)), height |-> None]
              ELSE [width |-> None, height |-> Some(Round(size))]
      mw == cappedMaxWidth(options, metadata)
      mh == cappedMaxHeight(options, metadata)
  IN IF IsDef(options.maxWidth) /\ IsDef(options.maxHeight)
     THEN IF options.fit = "inside"
          THEN IF IsDef(mw) /\ IsDef(mh)
               THEN [base EXCEPT !.height =
                       Some(RoundDiv(size * mh[1], Scale * mw[1]))]
               ELSE [base EXCEPT !.height = None]
          ELSE [base EXCEPT !.height =
                  Some(RoundDiv(size * options.maxHeight[1],
                                Scale * options.maxWidth[1]))]
     ELSE base

fluidTransforms(options, metadata) ==
  LET fs0 == fluidFilteredSizes(options, metadata) IN
  [i \in 1..Len(fs0) |-> fluidTransform(options, metadata, fs0[i])]

\* ------------------------------------------------- image size, lines 24-66
\* Result of probing a file; the cache maps a content digest to the probed
\* dimensions, which the digest determines, so it is kept as a set of digests.
getImageSizeAsync(file, cache, env) ==
  IF env # "test" /\ file.digest \in cache
  THEN [threw |-> FALSE, defined |-> file.kind = "ok", reported |-> <<>>,
        cache |-> cache]
  ELSE IF file.kind = "missing"
  THEN [threw |-> TRUE, defined |-> FALSE, reported |-> <<>>,
        cache |-> cache]
  ELSE [threw |-> FALSE, defined |-> file.kind = "ok",
        reported |-> IF file.kind = "ok" THEN <<>> ELSE <<"dimensions">>,
        cache |-> cache \cup {file.digest}]

\* getImageSize (synchronous) as prepareQueue uses it on a readable image:
\* a hit leaves the cache alone, a miss stores the digest, whatever NODE_ENV
getImageSize(file, cache) == cache \cup {file.digest}

\* ------------------------------------------------------------- createJob
\* the dispatch paths createJob invokes, in order; none when it panics
\* because the bound action creators were never set
createJobPaths(creators) ==
  IF creators = "unset" THEN <<>>
  ELSE IF creators = "v2" THEN <<"createJobV2">>
  ELSE <<"scheduleJob">>

\* a createJob that attaches no handler to the promise
noCatchHandler(p, err) == {}

\* promise.catch(err => reporter.panic(`error converting image`, err))
catchHandler(p, err) == {<<p, err>>}

\* return promise: the promise createJob hands back is the dispatcher's
createJobReturn(p) == p

NewPromise == [state |-> "pending", err |-> ""]

\* ----------------------------------------------- batchQueueImageResizing
\* prepareQueue: the output file of a transform of a source file
outputPath(file, transform) == <<file.digest, transform>>

\* the operations of all transforms, without the existsSync filter
allOperations(file, transforms, operations, onDisk) ==
  operations \o [i \in 1..Len(transforms) |-> outputPath(file, transforms[i])]

RECURSIVE queueOperations(_, _, _, _)
queueOperations(file, transforms, operations, onDisk) ==
  IF transforms = <<>> THEN operations
  ELSE queueOperations(
         file, Tail(transforms),
         SelectSeq(Append(operations, outputPath(file, transforms[1])),
                   LAMBDA o : o \notin onDisk),
         onDisk)

\* images.map(image => { image.finishedPromise = finishedPromise ... })
imageFinishedPromise(p) == Some(p)

\* The eventual width and height of a variant: a dimension the transform
\* gives is kept, a missing one follows from the other by the aspect ratio
\* of the source, rounded to the nearest integer.
getDimensionsAndAspectRatio(dimensions, options) ==
  [width |->
     IF IsDef(options.width) THEN options.width[1]
     ELSE IF IsDef(options.height)
     THEN RoundDiv(options.height[1] * dimensions.width, dimensions.height)
     ELSE dimensions.width,
   height |->
     IF IsDef(options.height) THEN options.height[1]
     ELSE IF IsDef(options.width)
     THEN RoundDiv(options.width[1] * dimensions.height, dimensions.width)
     ELSE dimensions.height]

batchImages(file, transforms, p) ==
  [i \in 1..Len(transforms) |->
     [absolutePath |-> outputPath(file, transforms[i]),
      width |-> getDimensionsAndAspectRatio(file, transforms[i]).width,
      height |-> getDimensionsAndAspectRatio(file, transforms[i]).height,
      finishedPromise |-> imageFinishedPromise(p)]]

\* one createJob call per transform, as queueImageResizing would make
jobPerTransform(file, transforms, onDisk) ==
  [i \in 1..Len(transforms) |->
     queueOperations(file, <<transforms[i]>>, <<>>, onDisk)]

\* the createJob calls of one batchQueueImageResizing call, each with its
\* operations
batchJobs(file, transforms, onDisk) ==
  <<queueOperations(file, transforms, <<>>, onDisk)>>

\* ----------------------------------------------------------------- fixed
fixedFixedDimension(options) ==
  IF options.width = None THEN "height" ELSE "width"

fixedOption(options) ==
  IF fixedFixedDimension(options) = "width"
  THEN options.width[1] ELSE options.height[1]

fixedIntrinsic(options, dimensions) ==
  IF fixedFixedDimension(options) = "width"
  THEN dimensions.width ELSE dimensions.height

\* sizes for 1x, 1.5x and 2x, in quarter pixels
fixedSizes(options) ==
  LET o == fixedOption(options) IN <<Scale * o, 6 * o, 8 * o>>

\* sizes.filter(size => size <= dimensions[fixedDimension])
fixedKeptSizes(options, dimensions) ==
  SelectSeq(fixedSizes(options),
            LAMBDA s : s <= Scale * fixedIntrinsic(options, dimensions))

\* the filtered sizes without the fallback to the intrinsic size
fixedSizesWithoutFallback(options, dimensions) ==
  fixedKeptSizes(options, dimensions)

\* if nothing is left the intrinsic size is pushed (and a warning printed)
fixedFilteredSizes(options, dimensions) ==
  IF fixedKeptSizes(options, dimensions) = <<>>
  THEN <<Scale * fixedIntrinsic(options, dimensions)>>
  ELSE fixedKeptSizes(options, dimensions)

\* one transform (arrrgs) of fixed(); a height that is not a finite number
\* (division by a zero width) is carried as undefined
fixedTransform(options, size) ==
  LET base == IF fixedFixedDimension(options) = "width"
              THEN [width |-> Some(Round(size)), height |-> options.height]
              ELSE [width |-> options.width, height |-> Some(Round(size))]
  IN IF IsDef(options.width) /\ IsDef(options.height)
     THEN IF options.width[1] = 0
          THEN [base EXCEPT !.height = None]
          ELSE [base EXCEPT !.height =
                  Some(RoundDiv(size * options.height[1],
                                Scale * options.width[1]))]
     ELSE base

fixedTransforms(options, dimensions) ==
  LET sorted == SortBy(fixedFilteredSizes(options, dimensions)) IN
  [i \in 1..Len(sorted) |-> fixedTransform(options, sorted[i])]

\* the resolution label of the i-th image of the srcSet
resolutionLabel(i) ==
  IF i = 1 THEN "1x" ELSE IF i = 2 THEN "1.5x"
  ELSE IF i = 3 THEN "2x" ELSE "undefined"

fixedSrcSet(images) ==
  [i \in 1..Len(images) |->
     [src |-> images[i].absolutePath, resolution |-> resolutionLabel(i)]]

\* ------------------------------------------------------------ call record
NoCall ==
  [op |-> "none", args |-> NoArgs, file |-> NoFile, outcome |-> "none",
   reported |-> <<>>, warned |-> FALSE, sizes |-> <<>>, transforms |-> <<>>,
   densityOneIndex |-> 0, images |-> <<>>, srcSet |-> <<>>, jobs |-> <<>>,
   createJobCalls |-> 0, presentationWidth |-> 0, presentationHeight |-> 0,
   sizesAttr |-> "", onDisk |-> {}]

\* batchQueueImageResizing({file, transforms}) applied to the call record c:
\* every transform goes through prepareQueue (which probes the image size),
\* then createJob is called with the operations left after the existsSync
\* filter, and every image gets the promise createJob returned.
batchQueueImageResizing(c, file, transforms, sizeCache) ==
  LET cache == IF transforms = <<>> THEN sizeCache
               ELSE getImageSize(file, sizeCache)
      calls == batchJobs(file, transforms, existing)
      paths == createJobPaths(boundActionCreators)
      n == Len(calls) * Len(paths)
      jobs == [k \in 1..n |->
                 [operations |-> calls[((k - 1) \div Len(paths)) + 1],
                  path |-> paths[((k - 1) % Len(paths)) + 1],
                  promise |-> Len(promises) + k]]
  IN IF paths = <<>>
     THEN [call |-> [c EXCEPT !.outcome = "panic", !.transforms = transforms,
                              !.createJobCalls = 1, !.onDisk = existing],
           promises |-> promises, cache |-> cache]
     ELSE [call |-> [c EXCEPT !.outcome = "ok", !.transforms = transforms,
                              !.createJobCalls = Len(calls),
                              !.onDisk = existing,
                              !.jobs = jobs,
                              !.images =
                                 batchImages(file, transforms,
                                   createJobReturn(jobs[n].promise))],
           promises |-> promises \o [k \in 1..n |-> NewPromise],
           cache |-> cache]

\* `(max-width: ${presentationWidth}px) 100vw, ${presentationWidth}px`
defaultSizes(presentationWidth) ==
  "(max-width: " \o ToString(presentationWidth) \o "px) 100vw, "
    \o ToString(presentationWidth) \o "px"

\* options.sizes || default: undefined and the empty string are both falsy
fluidSizesAttr(options, presentationWidth) ==
  IF IsDef(options.sizes) /\ options.sizes[1] # ""
  THEN options.sizes[1] ELSE defaultSizes(presentationWidth)

\* fluid({file, args})
fluid(args, file) ==
  LET c == [NoCall EXCEPT !.op = "fluid", !.args = args, !.file = file]
      unchanged(call) == [call |-> call, promises |-> promises,
                          cache |-> imageSizeCache]
  IN IF healOptionsFails(args)
     THEN unchanged([c EXCEPT !.outcome = "throw:InvalidOption"])
     ELSE IF file.kind # "ok"
     THEN unchanged([c EXCEPT !.outcome = "null",
                              !.reported = <<"metadata">>])
     ELSE IF fluidOption(args) < 1
     THEN unchanged([c EXCEPT !.outcome = "throw:InvalidDimension"])
     ELSE IF invalidBreakpoint(args)
     THEN unchanged([c EXCEPT !.outcome = "throw:InvalidBreakpoint"])
     ELSE
       LET idx == imageWithDensityOneIndex(args, file)
           b == batchQueueImageResizing(
                  [c EXCEPT !.sizes = fluidFilteredSizes(args, file),
                            !.densityOneIndex = idx],
                  file, fluidTransforms(args, file), imageSizeCache)
       IN IF b.call.outcome # "ok" THEN b
          ELSE IF idx = 0
          THEN [b EXCEPT !.call.outcome = "throw:TypeError"]
          ELSE [b EXCEPT
                  !.call.presentationWidth = b.call.images[idx].width,
                  !.call.presentationHeight = b.call.images[idx].height,
                  !.call.sizesAttr =
                     fluidSizesAttr(args, b.call.images[idx].width)]

\* fixed({file, args})
fixed(args, file, env) ==
  LET c == [NoCall EXCEPT !.op = "fixed", !.args = args, !.file = file]
      probe == getImageSizeAsync(file, imageSizeCache, env)
      result(call) == [call |-> call, promises |-> promises,
                       cache |-> probe.cache]
  IN IF healOptionsFails(args)
     THEN [call |-> [c EXCEPT !.outcome = "throw:InvalidOption"],
           promises |-> promises, cache |-> imageSizeCache]
     ELSE IF probe.threw
     THEN result([c EXCEPT !.outcome = "throw:probe"])
     ELSE IF ~probe.defined
     THEN result([c EXCEPT !.outcome = "throw:TypeError",
                           !.reported = probe.reported])
     ELSE
       LET b == batchQueueImageResizing(
                  [c EXCEPT !.sizes = SortBy(fixedFilteredSizes(args, file)),
                            !.warned = (fixedKeptSizes(args, file) = <<>>)],
                  file, fixedTransforms(args, file), probe.cache)
       IN [b EXCEPT !.call.srcSet = fixedSrcSet(b.call.images)]

\* ---------------------------------------------------- directory provider
\* A path is a sequence of names below the root; the root always exists.
DirPaths == {<<"a">>, <<"a", "b">>, <<"c">>}

Resources == [id : DirPaths, path : DirPaths]

NoResource == [id |-> <<>>, path |-> <<>>]

DirNoCall ==
  [op |-> "none", resource |-> NoResource, target |-> <<>>,
   before |-> {}, first |-> None, outcome |-> "none", result |-> None]

Prefixes(path) == {SubSeq(path, 1, n) : n \in 1..Len(path)}

IsChild(child, path) ==
  Len(child) = Len(path) + 1 /\ SubSeq(child, 1, Len(path)) = path

\* fs.accessSync(fullPath, F_OK) succeeds
directoryExists(disk, fullPath) == fullPath \in disk

\* message(resource)
message(path) == <<"Created directory", path>>

\* fs.emptyDir: like ensureDir, but empties a directory that is there
emptyDir(disk, fullPath) ==
  {d \in disk : ~(Len(d) > Len(fullPath)
                   /\ SubSeq(d, 1, Len(fullPath)) = fullPath)}
    \cup Prefixes(fullPath)

\* fs.ensureDir: creates the directory and its missing parents, and is
\* silent when the directory is already there
ensureDir(disk, fullPath) == disk \cup Prefixes(fullPath)

\* the error of a recursive removal, which takes a non-empty directory too
removeError(disk, fullPath) ==
  IF fullPath \notin disk THEN "ENOENT" ELSE ""

\* the error of fs.rmdir, "" when it succeeds
rmdirError(disk, fullPath) ==
  IF fullPath \notin disk THEN "ENOENT"
  ELSE IF \E c \in disk : IsChild(c, fullPath) THEN "ENOTEMPTY"
  ELSE ""

\* read(context, id)
readResource(disk, id) ==
  IF ~directoryExists(disk, id) THEN None
  ELSE Some([id |-> id, path |-> id, _message |-> message(id)])

\* ------------------------------------------- placeholders and their cache
\* arguments of a placeholder render; the width is base64Width
PlaceholderArgs == {[width |-> 20, height |-> h] : h \in {10, 20}}

\* generateCacheKey: `${file.internal.contentDigest}${JSON.stringify(args)}`
generateCacheKey(file, args) == <<file.digest, args>>

CacheKeys == {generateCacheKey(f, a) : f \in OkFiles, a \in PlaceholderArgs}

\* the process functions handed to cachifiedProcess
ProcessFns == {"generateBase64", "notMemoizedtraceSVG"}

\* How a run of the process function ends: with a placeholder, with null
\* (generateBase64 reports the failure and returns null, lines 286-289), or
\* with an exception (a rejected pipeline.toBuffer(), line 338).
ProcessOutcomes == {"value", "null", "throw"}

Null == <<"null">>

\* the value a successful run of processFn produces for a key
processResult(processFn, key, outcome) ==
  IF outcome = "value" THEN <<"data", processFn, key>> ELSE Null

\* if (cached): undefined (nothing stored) and null are both falsy
Truthy(x) == x # None /\ x # Null

\* cachifiedProcess({cache, ...arg}, genKey, processFn)
cachifiedProcess(store, key, processFn, outcome) ==
  LET cached == store[key] IN
  IF Truthy(cached)
  THEN [result |-> cached, ran |-> FALSE, threw |-> FALSE, store |-> store]
  ELSE IF outcome = "throw"
  THEN [result |-> None, ran |-> TRUE, threw |-> TRUE, store |-> store]
  ELSE [result |-> processResult(processFn, key, outcome), ran |-> TRUE,
        threw |-> FALSE,
        store |-> [store EXCEPT
                     ![key] = processResult(processFn, key, outcome)]]

\* _.memoize(fn, generateCacheKey): the promise of the first call is kept
\* under the key and handed to every later call, settled as it was
memoized(memo, key, processFn, outcome) ==
  LET kept == memo[<<processFn, key>>]
      made == IF outcome = "throw" THEN <<"rejected">>
              ELSE <<"resolved", processResult(processFn, key, outcome)>>
      promise == IF kept = None THEN made ELSE kept
  IN [result |-> IF promise[1] = "rejected" THEN None ELSE promise[2],
      ran |-> kept = None,
      threw |-> promise[1] = "rejected",
      memo |-> [memo EXCEPT ![<<processFn, key>>] = promise]]

NoCacheCall ==
  [op |-> "none", key |-> <<>>, useCache |-> FALSE, ran |-> FALSE,
   threw |-> FALSE, result |-> None, stored |-> None, calls |-> 0]

\* ------------------------------------------------------------------ state
Init ==
  /\ boundActionCreators = "unset"
  /\ imageSizeCache = {}
  /\ promises = <<>>
  /\ panics = {}
  /\ existing = {}
  /\ last = NoCall
  /\ fs = {}
  /\ dirLast = DirNoCall
  /\ firstResult = [p \in DirPaths |-> None]
  /\ cacheStore = [k \in CacheKeys |-> None]
  /\ memoStore = [k \in ProcessFns \X CacheKeys |-> None]
  /\ processRuns = [k \in CacheKeys |-> 0]
  /\ cacheLast = NoCacheCall

\* exports.setBoundActionCreators = actions => { boundActionCreators = actions }
setBoundActionCreators(actions) ==
  /\ last.op = "none"
  /\ boundActionCreators' = actions
  /\ UNCHANGED <<imageSizeCache, promises, panics, existing, last>>
  /\ UNCHANGED dirVars
  /\ UNCHANGED cacheVars

Fluid(args, file) ==
  /\ last.op = "none"
  /\ Len(promises) < MaxJobs
  /\ LET r == fluid(args, file) IN
       /\ last' = r.call
       /\ promises' = r.promises
       /\ imageSizeCache' = r.cache
  /\ UNCHANGED <<boundActionCreators, panics, existing>>
  /\ UNCHANGED dirVars
  /\ UNCHANGED cacheVars

Fixed(args, file, env) ==
  /\ last.op = "none"
  /\ Len(promises) < MaxJobs
  /\ LET r == fixed(args, file, env) IN
       /\ last' = r.call
       /\ promises' = r.promises
       /\ imageSizeCache' = r.cache
  /\ UNCHANGED <<boundActionCreators, panics, existing>>
  /\ UNCHANGED dirVars
  /\ UNCHANGED cacheVars

\* exports.batchQueueImageResizing called directly with a list of transforms
BatchQueue(file, transforms) ==
  /\ last.op = "none"
  /\ Len(promises) < MaxJobs
  /\ LET r == batchQueueImageResizing(
                [NoCall EXCEPT !.op = "batch", !.file = file],
                file, transforms, imageSizeCache) IN
       /\ last' = r.call
       /\ promises' = r.promises
       /\ imageSizeCache' = r.cache
  /\ UNCHANGED <<boundActionCreators, panics, existing>>
  /\ UNCHANGED dirVars
  /\ UNCHANGED cacheVars

\* the render dispatcher writes an output file of a source image to disk
WorkerWrites(path) ==
  /\ path \notin existing
  /\ existing' = existing \cup {path}
  /\ UNCHANGED <<boundActionCreators, imageSizeCache, promises, panics, last>>
  /\ UNCHANGED dirVars
  /\ UNCHANGED cacheVars

\* the dispatcher's promise p resolves
Resolve(p) ==
  /\ p \in 1..Len(promises)
  /\ promises[p].state = "pending"
  /\ promises' = [promises EXCEPT ![p].state = "resolved"]
  /\ UNCHANGED <<boundActionCreators, imageSizeCache, panics, existing, last>>
  /\ UNCHANGED dirVars
  /\ UNCHANGED cacheVars

\* the dispatcher's promise p rejects with err; createJob's catch handler runs
Reject(p, err) ==
  /\ p \in 1..Len(promises)
  /\ promises[p].state = "pending"
  /\ promises' = [promises EXCEPT ![p] = [state |-> "rejected", err |-> err]]
  /\ panics' = panics \cup catchHandler(p, err)
  /\ UNCHANGED <<boundActionCreators, imageSizeCache, existing, last>>
  /\ UNCHANGED dirVars
  /\ UNCHANGED cacheVars

\* the caller receives the result of the call
Return ==
  /\ last.op # "none"
  /\ last' = NoCall
  /\ UNCHANGED <<boundActionCreators, imageSizeCache, promises,
                 panics, existing>>
  /\ UNCHANGED dirVars
  /\ UNCHANGED cacheVars

\* create({root}, {id, path})
create(resource) ==
  LET disk == ensureDir(fs, resource.path)
      result == readResource(disk, resource.path) IN
  /\ fs' = disk
  /\ dirLast' = [op |-> "create", resource |-> resource,
                 target |-> resource.path,
                 before |-> fs,
                 first |-> firstResult[resource.path],
                 outcome |-> "ok", result |-> result]
  /\ firstResult' =
       IF directoryExists(fs, resource.path) THEN firstResult
       ELSE [firstResult EXCEPT ![resource.path] = result]
  /\ UNCHANGED sharpVars
  /\ UNCHANGED cacheVars

\* update(context, resource): works on resource.id
update(resource) ==
  LET disk == ensureDir(fs, resource.id)
      result == readResource(disk, resource.id) IN
  /\ fs' = disk
  /\ dirLast' = [op |-> "update", resource |-> resource,
                 target |-> resource.id,
                 before |-> fs,
                 first |-> firstResult[resource.id],
                 outcome |-> "ok", result |-> result]
  /\ firstResult' =
       IF directoryExists(fs, resource.id) THEN firstResult
       ELSE [firstResult EXCEPT ![resource.id] = result]
  /\ UNCHANGED sharpVars
  /\ UNCHANGED cacheVars

\* read(context, id)
read(id) ==
  /\ dirLast' = [op |-> "read", resource |-> [id |-> id, path |-> id],
                 target |-> id,
                 before |-> fs,
                 first |-> firstResult[id],
                 outcome |-> "ok", result |-> readResource(fs, id)]
  /\ UNCHANGED <<fs, firstResult>>
  /\ UNCHANGED sharpVars
  /\ UNCHANGED cacheVars

\* destroy(context, directoryResource): fs.rmdir on directoryResource.id
destroy(resource) ==
  LET err == rmdirError(fs, resource.id) IN
  /\ fs' = IF err = "" THEN fs \ {resource.id} ELSE fs
  /\ dirLast' = [op |-> "destroy", resource |-> resource,
                 target |-> resource.id,
                 before |-> fs,
                 first |-> firstResult[resource.id],
                 outcome |-> IF err = "" THEN "ok" ELSE "error:" \o err,
                 result |-> IF err = "" THEN Some(resource) ELSE None]
  /\ firstResult' =
       IF err = "" THEN [firstResult EXCEPT ![resource.id] = None]
       ELSE firstResult
  /\ UNCHANGED sharpVars
  /\ UNCHANGED cacheVars

\* A placeholder call, base64(arg) or traceSVG(args), applied to the stores:
\* with a cache the call goes through cachifiedProcess, without one through
\* the memoized function; outcome is how the process function ends if this
\* call runs it.
placeholder(op, processFn, file, args, useCache, outcome) ==
  LET key == generateCacheKey(file, args)
      c == cachifiedProcess(cacheStore, key, processFn, outcome)
      m == memoized(memoStore, key, processFn, outcome)
      call == [op |-> op, key |-> key, useCache |-> useCache,
               ran |-> FALSE, threw |-> FALSE, result |-> None,
               stored |-> None, calls |-> cacheLast.calls + 1]
  IN IF useCache
     THEN [store |-> c.store, memo |-> memoStore,
           runs |-> [processRuns EXCEPT
                       ![key] = @ + (IF c.ran THEN 1 ELSE 0)],
           call |-> [call EXCEPT !.ran = c.ran, !.threw = c.threw,
                                 !.result = c.result,
                                 !.stored = cacheStore[key]]]
     ELSE [store |-> cacheStore, memo |-> m.memo, runs |-> processRuns,
           call |-> [call EXCEPT !.ran = m.ran, !.threw = m.threw,
                                 !.result = m.result]]

\* async function base64(arg); calls are awaited one after the other
base64(file, args, useCache, outcome) ==
  /\ cacheLast.calls < MaxCalls
  /\ LET r == placeholder("base64", "generateBase64", file, args,
                          useCache, outcome) IN
       /\ cacheStore' = r.store
       /\ memoStore' = r.memo
       /\ processRuns' = r.runs
       /\ cacheLast' = r.call
  /\ UNCHANGED sharpVars
  /\ UNCHANGED dirVars

\* async function traceSVG(args)
traceSVG(file, args, useCache, outcome) ==
  /\ cacheLast.calls < MaxCalls
  /\ LET r == placeholder("traceSVG", "notMemoizedtraceSVG", file, args,
                          useCache, outcome) IN
       /\ cacheStore' = r.store
       /\ memoStore' = r.memo
       /\ processRuns' = r.runs
       /\ cacheLast' = r.call
  /\ UNCHANGED sharpVars
  /\ UNCHANGED dirVars

NextCache ==
  \/ \E file \in OkFiles, args \in PlaceholderArgs, useCache \in BOOLEAN,
        outcome \in ProcessOutcomes : base64(file, args, useCache, outcome)
  \/ \E file \in OkFiles, args \in PlaceholderArgs, useCache \in BOOLEAN,
        outcome \in ProcessOutcomes : traceSVG(file, args, useCache, outcome)

SpecCache == Init /\ [][NextCache]_vars

NextDirectory ==
  \/ \E r \in Resources : create(r)
  \/ \E r \in Resources : update(r)
  \/ \E id \in DirPaths : read(id)
  \/ \E r \in Resources : destroy(r)

SpecDirectory == Init /\ [][NextDirectory]_vars

NextFluid ==
  \/ \E a \in {"v1", "v2"} : setBoundActionCreators(a)
  \/ \E args \in FluidArgs, file \in SourceFiles : Fluid(args, file)
  \/ Return

SpecFluid == Init /\ [][NextFluid]_vars

\* fluid() on readable images, with and without a sizes string
NextPresentation ==
  \/ setBoundActionCreators("v2")
  \/ \E args \in FluidSizesArgs, file \in OkFiles : Fluid(args, file)
  \/ Return

SpecPresentation == Init /\ [][NextPresentation]_vars

NextFixed ==
  \/ \E a \in {"v1", "v2"} : setBoundActionCreators(a)
  \/ \E args \in FixedArgs, file \in SourceFiles, env \in NodeEnvs :
        Fixed(args, file, env)
  \/ Return

SpecFixed == Init /\ [][NextFixed]_vars

OutputPaths ==
  {outputPath(f, t) : f \in OkFiles, t \in UNION {Range(ts) : ts \in BatchTransforms}}

NextJobs ==
  \/ \E a \in {"v1", "v2"} : setBoundActionCreators(a)
  \/ \E file \in OkFiles, ts \in BatchTransforms : BatchQueue(file, ts)
  \/ \E path \in OutputPaths : WorkerWrites(path)
  \/ \E p \in 1..MaxJobs : Resolve(p)
  \/ \E p \in 1..MaxJobs, err \in Errors : Reject(p, err)
  \/ Return

SpecJobs == Init /\ [][NextJobs]_vars

Next ==
  \/ NextFluid
  \/ NextPresentation
  \/ NextFixed
  \/ NextJobs
  \/ NextCache
  \/ NextDirectory

Spec == Init /\ [][Next]_vars

\* ================================================================ claims
\* the call handed its transforms to batchQueueImageResizing
Queued(call) == call.outcome \in {"ok", "panic", "throw:TypeError"}
                   /\ call.transforms # <<>>

\* the rounded fixed-axis value of the i-th transform of a fluid call
FluidTarget(call, i) ==
  IF call.args.maxWidth = None
  THEN call.transforms[i].height[1] ELSE call.transforms[i].width[1]

FluidTargets(call) == [i \in 1..Len(call.transforms) |-> FluidTarget(call, i)]

\* the requested fixed-axis option of a fluid call and the source's
\* intrinsic size on that axis
FluidRequested(call) ==
  IF call.args.maxWidth = None
  THEN call.args.maxHeight[1] ELSE call.args.maxWidth[1]

FluidSourceSize(call) ==
  IF call.args.maxWidth = None THEN call.file.height ELSE call.file.width

StrictlyAscending(s) == \A i \in 1..(Len(s) - 1) : s[i] < s[i + 1]

\* C1: in fluid() with the default breakpoints, the rounded target sizes
\* handed to batchQueueImageResizing include the capped base and the
\* intrinsic size, hold no duplicates and are strictly ascending.
C1_FluidTargetsStrictlyAscending ==
  (last.op = "fluid" /\ last.outcome = "ok"
     /\ last.args.srcSetBreakpoints = <<>>)
    => /\ Min(FluidRequested(last), FluidSourceSize(last))
            \in Range(FluidTargets(last))
       /\ FluidSourceSize(last) \in Range(FluidTargets(last))
       /\ StrictlyAscending(FluidTargets(last))

\* C2 as stated: whenever the requested option is at least the intrinsic
\* size, the only variant queued is the intrinsic size.
C2_CollapsesToIntrinsic ==
  (last.op = "fluid" /\ last.outcome = "ok"
     /\ FluidRequested(last) >= FluidSourceSize(last))
    => FluidTargets(last) = <<FluidSourceSize(last)>>

\* C2 amended: whenever the requested option is at least the intrinsic size,
\* no queued size exceeds the intrinsic size and the last (largest) one is the
\* intrinsic size; the list is the single intrinsic size exactly when no
\* candidate lies below the intrinsic size (default breakpoints: option / 4
\* >= intrinsic; custom breakpoints: every breakpoint >= intrinsic).
C2_NeverAboveIntrinsic ==
  (last.op = "fluid" /\ Queued(last)
     /\ FluidRequested(last) >= FluidSourceSize(last))
    => LET t == FluidTargets(last)
           src == FluidSourceSize(last)
           bps == last.args.srcSetBreakpoints
       IN /\ \A i \in 1..Len(t) : t[i] <= src
          /\ t[Len(t)] = src
          /\ (Len(t) = 1) <=>
               IF bps = <<>> THEN FluidRequested(last) >= 4 * src
               ELSE \A i \in 1..Len(bps) : bps[i] >= src

\* C2 witness: an option above the intrinsic size whose smaller candidates
\* were queued next to the intrinsic size
C2_Witness ==
  /\ last.op = "fluid" /\ last.outcome = "ok"
  /\ FluidRequested(last) > FluidSourceSize(last)
  /\ Len(last.transforms) > 1
  /\ FluidTarget(last, Len(last.transforms)) = FluidSourceSize(last)

\* C5: on a readable image fluid() throws when the option it uses is below 1
\* or a custom breakpoint is not above 0, and then no job has been created.
C5_FluidRejectsBeforeJob ==
  (/\ last.op = "fluid" /\ last.file.kind = "ok"
   /\ \/ FluidRequested(last) < 1
      \/ \E i \in 1..Len(last.args.srcSetBreakpoints) :
            last.args.srcSetBreakpoints[i] <= 0)
    => /\ last.outcome \in {"throw:InvalidOption", "throw:InvalidDimension",
                            "throw:InvalidBreakpoint"}
       /\ last.createJobCalls = 0
       /\ last.jobs = <<>>
       /\ last.transforms = <<>>

\* C5 witness: a call with a valid option rejected for a breakpoint of 0
C5_Witness ==
  /\ last.op = "fluid" /\ last.file.kind = "ok"
  /\ FluidRequested(last) >= 1
  /\ 0 \in Range(last.args.srcSetBreakpoints)
  /\ last.outcome = "throw:InvalidBreakpoint"
  /\ last.jobs = <<>>

\* the requested fixed-axis option of a fixed call, the source's intrinsic
\* size on that axis and the rounded fixed-axis value of its i-th transform
FixedRequested(call) ==
  IF call.args.width = None THEN call.args.height[1] ELSE call.args.width[1]

FixedSourceSize(call) ==
  IF call.args.width = None THEN call.file.height ELSE call.file.width

FixedTarget(call, i) ==
  IF call.args.width = None
  THEN call.transforms[i].height[1] ELSE call.transforms[i].width[1]

Threw(call) ==
  call.outcome \in {"throw:InvalidOption", "throw:InvalidDimension",
                    "throw:InvalidBreakpoint", "throw:TypeError",
                    "throw:probe"}

\* C3: in fixed(), when the requested size exceeds the intrinsic size, one
\* variant of the intrinsic size is queued, a warning is printed, the call
\* throws nothing, and the srcSet it returns has the single entry 1x.
C3_FixedFallsBackToIntrinsic ==
  (/\ last.op = "fixed" /\ last.file.kind = "ok"
   /\ last.outcome # "throw:InvalidOption"
   /\ FixedRequested(last) > FixedSourceSize(last))
    => /\ ~Threw(last)
       /\ Len(last.transforms) = 1
       /\ FixedTarget(last, 1) = FixedSourceSize(last)
       /\ last.warned
       /\ last.createJobCalls = 1
       /\ last.outcome = "ok" =>
            /\ Len(last.images) = 1
            /\ Len(last.jobs) = 1
            /\ Len(last.srcSet) = 1
            /\ last.srcSet[1].resolution = "1x"
            /\ last.srcSet[1].src = last.images[1].absolutePath

\* C3 witness: a fixed call for more than the image has, answered with the
\* single 1x variant
C3_Witness ==
  /\ last.op = "fixed" /\ last.outcome = "ok"
  /\ FixedRequested(last) > FixedSourceSize(last)
  /\ last.warned
  /\ Len(last.srcSet) = 1

\* C4: fixed() throws whenever the fixed-axis option is below 1, before any
\* job is created, and no fixed call queues a variant of size 0 or less.
C4_FixedRejectsNonPositive ==
  last.op = "fixed" =>
    /\ FixedRequested(last) < 1 =>
         /\ Threw(last)
         /\ last.transforms = <<>>
         /\ last.createJobCalls = 0
         /\ last.jobs = <<>>
    /\ \A i \in 1..Len(last.transforms) : FixedTarget(last, i) >= 1

\* C4 witness: a fixed call with a width of 0 that was rejected
C4_Witness ==
  /\ last.op = "fixed"
  /\ last.args.width = Some(0)
  /\ Threw(last)
  /\ last.jobs = <<>>

\* C6: when the source image cannot be read or its dimensions cannot be
\* determined, fluid and fixed report the failure, return an absent result
\* instead of throwing, and create no job.
C6_UnreadableSourceIsReported ==
  (/\ last.op \in {"fluid", "fixed"}
   /\ last.file.kind \in {"corrupt", "missing"}
   /\ last.outcome # "throw:InvalidOption")
    => /\ last.outcome = "null"
       /\ last.reported # <<>>
       /\ last.createJobCalls = 0
       /\ last.jobs = <<>>

\* C7: a call of batchQueueImageResizing calls createJob once, whatever the
\* number of transforms; when it returns there is exactly one dispatch, its
\* promise is the newest one, and every image carries that promise.
C7_OneDispatchSharedPromise ==
  (last.op # "none" /\ last.outcome \in {"ok", "panic"})
    => /\ last.createJobCalls = 1
       /\ last.outcome = "panic" => (last.jobs = <<>> /\ last.images = <<>>)
       /\ last.outcome = "ok" =>
            /\ Len(last.jobs) = 1
            /\ last.jobs[1].promise = Len(promises)
            /\ Len(last.images) = Len(last.transforms)
            /\ \A i \in 1..Len(last.images) :
                  last.images[i].finishedPromise = Some(last.jobs[1].promise)

\* C7 witness: a batch of two transforms, one of them already on disk,
\* returned with one dispatch
C7_Witness ==
  /\ last.op = "batch" /\ last.outcome = "ok"
  /\ Len(last.transforms) = 2
  /\ Len(last.jobs) = 1
  /\ Len(last.jobs[1].operations) = 1
  /\ last.images[1].finishedPromise = last.images[2].finishedPromise

\* the promise the caller of the last call holds is the dispatcher's, and
\* one dispatch path was taken: the one the host's capabilities select
OnePathDispatcherPromise ==
  last.outcome = "ok" =>
    /\ Len(last.jobs) = last.createJobCalls
    /\ \A k \in 1..Len(last.jobs) :
          /\ last.jobs[k].path =
               (IF boundActionCreators = "v2" THEN "createJobV2"
                ELSE "scheduleJob")
          /\ last.jobs[k].promise \in 1..Len(promises)
    /\ \A i \in 1..Len(last.images) :
          last.images[i].finishedPromise =
             Some(last.jobs[Len(last.jobs)].promise)

\* C8 as stated: createJob does nothing of its own when the dispatcher's
\* promise rejects, the caller holds the dispatcher's promise, and one
\* dispatch path is taken per call.
C8_RejectionForwardedUnhandled ==
  /\ \A p \in 1..Len(promises) :
        promises[p].state = "rejected" => \A e \in Errors : <<p, e>> \notin panics
  /\ OnePathDispatcherPromise

\* C8 amended: the caller holds the dispatcher's own promise, so it sees the
\* rejection with the dispatcher's error, and one dispatch path is taken per
\* call; but createJob does handle the failure: its catch handler reports
\* every rejection, with the dispatcher's error, through reporter.panic.
C8_RejectionForwardedAndReported ==
  /\ \A p \in 1..Len(promises) :
        promises[p].state = "rejected" => <<p, promises[p].err>> \in panics
  /\ \A x \in panics :
        /\ x[1] \in 1..Len(promises)
        /\ promises[x[1]] = [state |-> "rejected", err |-> x[2]]
  /\ OnePathDispatcherPromise

\* C8 witness: the promise of the last call's job rejected and was reported
C8_Witness ==
  /\ last.op = "batch" /\ last.outcome = "ok"
  /\ promises[last.jobs[1].promise].state = "rejected"
  /\ <<last.jobs[1].promise, promises[last.jobs[1].promise].err>> \in panics

\* the resource read returns for a directory
DirResource(path) ==
  [id |-> path, path |-> path, _message |-> <<"Created directory", path>>]

\* C9: read returns an absent value for a path that does not exist and the
\* resource for one that does, and never fails; create or update on a path
\* that exists succeeds, leaves the disk as it was and returns the resource
\* the call that made the directory returned.
C9_ReadAndIdempotentCreate ==
  /\ dirLast.op = "read" =>
       /\ dirLast.outcome = "ok"
       /\ dirLast.result =
            (IF dirLast.target \in dirLast.before
             THEN Some(DirResource(dirLast.target)) ELSE None)
       /\ fs = dirLast.before
  /\ (dirLast.op \in {"create", "update"}
        /\ dirLast.target \in dirLast.before) =>
       /\ dirLast.outcome = "ok"
       /\ fs = dirLast.before
       /\ dirLast.result = Some(DirResource(dirLast.target))
       /\ IsDef(dirLast.first) => dirLast.result = dirLast.first

\* C9 witness: create called again on a directory an earlier call made
C9_Witness ==
  /\ dirLast.op = "create"
  /\ dirLast.target \in dirLast.before
  /\ IsDef(dirLast.first)
  /\ dirLast.result = dirLast.first

\* C10: destroy on a non-empty directory fails with the error of rmdir and
\* leaves the disk as it was, so that read still returns the resource;
\* destroy on an empty directory succeeds, returns the resource it was given,
\* and read returns an absent value afterwards.
C10_DestroyOnlyEmpty ==
  (dirLast.op = "destroy" /\ dirLast.target \in dirLast.before) =>
    IF \E c \in dirLast.before : IsChild(c, dirLast.target)
    THEN /\ dirLast.outcome = "error:ENOTEMPTY"
         /\ fs = dirLast.before
         /\ readResource(fs, dirLast.target)
              = Some(DirResource(dirLast.target))
    ELSE /\ dirLast.outcome = "ok"
         /\ dirLast.result = Some(dirLast.resource)
         /\ fs = dirLast.before \ {dirLast.target}
         /\ readResource(fs, dirLast.target) = None

\* C10 witness: destroy refused on a directory that holds another
C10_Witness ==
  /\ dirLast.op = "destroy"
  /\ dirLast.outcome = "error:ENOTEMPTY"
  /\ \E c \in fs : IsChild(c, dirLast.target)

\* the capped base value of a fluid call, in quarter pixels, and the places
\* of the sorted size list that hold it
CappedBase(call) == Scale * Min(FluidRequested(call), FluidSourceSize(call))

DensityOnePlaces(call) ==
  {i \in 1..Len(call.sizes) : call.sizes[i] = CappedBase(call)}

\* the caller gave a sizes string (the empty string counts as none)
SizesSupplied(call) == IsDef(call.args.sizes) /\ call.args.sizes[1] # ""

\* C11: in fluid() on a readable image with a fixed-axis option of at least 1
\* and valid breakpoints, exactly one element of the sorted size list equals
\* min(option, intrinsic) and the density-one index is its place, so the
\* lookup never fails; the variant at that place targets the capped value,
\* presentationWidth and presentationHeight are its width and height, and
\* the sizes attribute is the caller's string when one is supplied and
\* "(max-width: {presentationWidth}px) 100vw, {presentationWidth}px" otherwise.
C11_DensityOneFoundAndPresented ==
  (/\ last.op = "fluid" /\ last.file.kind = "ok"
   /\ FluidRequested(last) >= 1
   /\ \A i \in 1..Len(last.args.srcSetBreakpoints) :
         last.args.srcSetBreakpoints[i] >= 1)
    => /\ Cardinality(DensityOnePlaces(last)) = 1
       /\ last.densityOneIndex \in DensityOnePlaces(last)
       /\ last.outcome \in {"ok", "panic"}
       /\ last.outcome = "ok" =>
            \A i \in DensityOnePlaces(last) :
               /\ FluidTarget(last, i) * Scale = CappedBase(last)
               /\ last.presentationWidth = last.images[i].width
               /\ last.presentationHeight = last.images[i].height
               /\ last.sizesAttr =
                    IF SizesSupplied(last) THEN last.args.sizes[1]
                    ELSE "(max-width: " \o ToString(last.images[i].width)
                           \o "px) 100vw, "
                           \o ToString(last.images[i].width) \o "px"

\* C11 witness: an option above the intrinsic size with custom breakpoints
\* and no sizes string; the density-one variant is the last one, of the
\* intrinsic size, and the default sizes attribute is built from its width
C11_Witness ==
  /\ last.op = "fluid" /\ last.outcome = "ok"
  /\ last.args.maxWidth = Some(4) /\ last.file.width = 3
  /\ last.args.srcSetBreakpoints = <<1, 2>>
  /\ last.args.sizes = None
  /\ last.densityOneIndex = 3
  /\ last.presentationWidth = 3
  /\ last.sizesAttr = "(max-width: 3px) 100vw, 3px"

\* C12: in a sequence of calls of base64 or traceSVG, one after the other,
\* that share a cache and a key, a call that finds a result stored under the
\* key by an earlier call returns that stored result and does not run the
\* process function again, whatever the stored result is; so the process
\* function runs at most once for the key.
C12_StoredResultServedWithoutRerun ==
  (cacheLast.useCache /\ cacheLast.stored # None)
    => /\ ~cacheLast.ran
       /\ cacheLast.result = cacheLast.stored
       /\ processRuns[cacheLast.key] = 1

\* the output file of a transform of a source file
OutputFile(file, transform) == <<file.digest, transform>>

\* C13: a call of batchQueueImageResizing that returns hands back exactly one
\* image per transform, in the order of the transforms; for every image
\* either its output file was on disk when the job was created or the
\* operations of the dispatched job hold one with its output path; and no
\* dispatched operation is for an output file that was on disk.
C13_OneImagePerTransformOperationsMissingOnly ==
  (last.op # "none" /\ last.outcome = "ok")
    => /\ Len(last.images) = Len(last.transforms)
       /\ Len(last.jobs) = 1
       /\ \A i \in 1..Len(last.images) :
             /\ last.images[i].absolutePath
                  = OutputFile(last.file, last.transforms[i])
             /\ \/ last.images[i].absolutePath \in last.onDisk
                \/ last.images[i].absolutePath
                     \in Range(last.jobs[1].operations)
       /\ \A j \in 1..Len(last.jobs[1].operations) :
             last.jobs[1].operations[j] \notin last.onDisk

\* C13 witness: a batch of two different transforms, the output of the first
\* on disk and that of the second not, dispatched with the second alone
C13_Witness ==
  /\ last.op = "batch" /\ last.outcome = "ok"
  /\ Len(last.images) = 2
  /\ last.images[1].absolutePath \in last.onDisk
  /\ last.images[2].absolutePath \notin last.onDisk
  /\ last.jobs[1].operations = <<last.images[2].absolutePath>>

====
